---------------------------- MODULE Spec2Model ----------------------------
(***************************************************************************)
(* Model of the vault-jwt crate: the Lease / Auth / Secret value types     *)
(* (lease.rs, auth.rs, secret.rs), the VaultClient auth cache and its      *)
(* login / get_secret operations (client.rs), and the two SecretPath       *)
(* parsers (parser_simple.rs, parser.rs) with the Display serializer.      *)
(*                                                                         *)
(* Three specifications share the variables:                               *)
(*   Spec       the VaultClient state machine under a forward clock        *)
(*   SpecLease  the value types Lease, Secret, Auth built directly         *)
(*   SpecParse  the parsers applied to bounded input strings               *)
(***************************************************************************)
EXTENDS Integers, Sequences, FiniteSets, TLC

VARIABLES
    now,      \* SystemTime::now(), in clock ticks
    auth,     \* VaultClient.auth: role -> Option<Auth>
    last,     \* the last client operation: its name, role and returned Result
    wire,     \* the transport exchanges made by the last client operation
    obj,      \* SpecLease: the value most recently constructed
    made,     \* SpecLease: the clock reading when obj was constructed
    input,    \* SpecParse: the string handed to the parsers
    it,       \* SpecParse: a SecretPathIterator over input (remainder, pos)
    yielded,  \* SpecParse: what the successive calls of it.next() returned
    simple,   \* SpecParse: Option<Result> of the scanner try_from(input)
    nom,      \* SpecParse: Option<Result> of the combinator try_from(input)
    shown     \* SpecParse: Option<String>, Display of the scanner's SecretPath

vars == <<now, auth, last, wire, obj, made, input, it, yielded, simple, nom, shown>>

clientVars == <<auth, last, wire>>
leaseVars  == <<obj, made>>
parseVars  == <<input, it, yielded, simple, nom, shown>>

----------------------------------------------------------------------------
(* Bounds of the model *)

\* the clock runs from 0 to MaxTime ticks
MaxTime == 4
\* clock ticks per second: the resolution at which Duration is modelled
TicksPerSec == 4
\* the longest Duration, in ticks, handed directly to Lease/Secret/Auth::new
MaxDur == 4

----------------------------------------------------------------------------
(* Option<T>: None is the empty sequence, Some(x) the one-element sequence *)

None == <<>>
Some(x) == <<x>>
IsSome(o) == o # <<>>
Unwrap(o) == o[1]

----------------------------------------------------------------------------
(* lease.rs *)

\* Duration::from_secs
from_secs(s) == s * TicksPerSec

\* Lease::new, mutated: the ratio of the renew delay is turned over
Lease_new_SwappedRatio(dur) ==
    [time |-> now, lease_duration |-> dur, renew_delay |-> (dur * 3) \div 2]

\* Lease::new
Lease_new(dur) ==
    [time |-> now, lease_duration |-> dur, renew_delay |-> (dur * 2) \div 3]

\* Lease::is_valid, mutated: the duration is not added to the start
Lease_is_valid_NoDuration(l) ==
    l.lease_duration # 0 /\ now < l.time

\* Lease::is_valid
Lease_is_valid(l) ==
    l.lease_duration # 0 /\ now < l.time + l.lease_duration

\* Lease::to_renew, mutated: the zero-duration test is dropped
Lease_to_renew_NoZeroTest(l) ==
    now > l.time + l.renew_delay

\* Lease::to_renew
Lease_to_renew(l) ==
    l.lease_duration # 0 /\ now > l.time + l.renew_delay

----------------------------------------------------------------------------
(* auth.rs *)

\* Auth::new
Auth_new(token, dur) ==
    [client_token |-> token,
     lease |-> IF IsSome(dur) THEN Some(Lease_new(Unwrap(dur))) ELSE None]

\* Auth::is_valid: && binds tighter than ||
Auth_is_valid(a) ==
    \/ (a.client_token # "" /\ a.lease = None)
    \/ (IsSome(a.lease) /\ Lease_is_valid(Unwrap(a.lease)))

\* Auth::to_renew
Auth_to_renew(a) ==
    IsSome(a.lease) /\ Lease_to_renew(Unwrap(a.lease))

----------------------------------------------------------------------------
(* secret.rs: Secret *)

\* Secret::new
Secret_new(value, dur) ==
    [value |-> value,
     lease |-> IF IsSome(dur) THEN Some(Lease_new(Unwrap(dur))) ELSE None]

\* Secret::is_valid, mutated: a secret without lease is not valid
Secret_is_valid_NeedsLease(s) ==
    IsSome(s.lease) /\ Lease_is_valid(Unwrap(s.lease))

\* Secret::is_valid
Secret_is_valid(s) ==
    s.lease = None \/ (IsSome(s.lease) /\ Lease_is_valid(Unwrap(s.lease)))

\* Secret::has_lease, mutated: an expired lease no longer counts
Secret_has_lease_Unexpired(s) ==
    IsSome(s.lease) /\ Lease_is_valid(Unwrap(s.lease))

\* Secret::has_lease
Secret_has_lease(s) ==
    IsSome(s.lease) /\ Unwrap(s.lease).lease_duration # 0

\* Secret::to_renew
Secret_to_renew(s) ==
    IsSome(s.lease) /\ Lease_to_renew(Unwrap(s.lease))

----------------------------------------------------------------------------
(* SpecLease: the value types constructed directly, under a forward clock *)

Durations == 0..MaxDur
OptDurations == {None} \cup {Some(d) : d \in Durations}
Tokens == {"", "t"}

NoObj == [kind |-> "none", client_token |-> "", lease |-> None]

\* Lease::new(dur) called by a user of the crate
NewLease(dur) ==
    /\ obj' = [kind |-> "Lease", client_token |-> "", lease |-> Some(Lease_new(dur))]
    /\ made' = now
    /\ UNCHANGED <<now, clientVars, parseVars>>

\* Secret::new(value, dur) called by a user of the crate
NewSecret(dur) ==
    /\ obj' = [kind |-> "Secret", client_token |-> "",
               lease |-> Secret_new("data", dur).lease]
    /\ made' = now
    /\ UNCHANGED <<now, clientVars, parseVars>>

\* Auth::new(token, dur) called by a user of the crate
NewAuth(token, dur) ==
    /\ obj' = [kind |-> "Auth", client_token |-> Auth_new(token, dur).client_token,
               lease |-> Auth_new(token, dur).lease]
    /\ made' = now
    /\ UNCHANGED <<now, clientVars, parseVars>>

\* the system clock moves forward
Tick ==
    /\ now < MaxTime
    /\ now' = now + 1
    /\ UNCHANGED <<clientVars, leaseVars, parseVars>>

----------------------------------------------------------------------------
(* client.rs: the transport and its responses *)

Roles == {"r1", "r2"}

\* a JSON value as far as the client reads it: an unsigned number, a string,
\* a boolean, or something of another JSON type
JU64(n)  == [t |-> "u64",  n |-> n, s |-> "", b |-> FALSE]
JStr(s)  == [t |-> "str",  n |-> 0, s |-> s,  b |-> FALSE]
JBool(b) == [t |-> "bool", n |-> 0, s |-> "", b |-> b]
JNull    == [t |-> "null", n |-> 0, s |-> "", b |-> FALSE]

\* serde_json Value::as_u64 / as_str / as_bool on an indexed field:
\* a missing field indexes to Null, and a value of another type gives None
as_u64(f)  == IF IsSome(f) /\ Unwrap(f).t = "u64"  THEN Some(Unwrap(f).n) ELSE None
as_str(f)  == IF IsSome(f) /\ Unwrap(f).t = "str"  THEN Some(Unwrap(f).s) ELSE None
as_bool(f) == IF IsSome(f) /\ Unwrap(f).t = "bool" THEN Some(Unwrap(f).b) ELSE None
unwrap_or(o, d) == IF IsSome(o) THEN Unwrap(o) ELSE d

\* lease durations, in seconds, that the server reports
LeaseSecs == {0, 1, 3}

\* the "auth" object of a login response / the top level of a secret response;
\* every field is an Option: the field may be missing
NoBody == [client_token |-> None, lease_duration |-> None, renewable |-> None]
AuthBodies ==
    [client_token : {None, Some(JStr("t"))},
     lease_duration : {None} \cup {Some(JU64(n)) : n \in {0, 1}},
     renewable : {None, Some(JBool(TRUE)), Some(JBool(FALSE))}]
SecretBodies ==
    [client_token : {None},
     lease_duration : {None, Some(JNull)} \cup {Some(JU64(n)) : n \in LeaseSecs},
     renewable : {None}]

\* what the transport does with one request: sent is whether the HTTP call
\* returned a response, status_ok whether its status is 200, json_ok whether
\* the body decodes as the JSON the client asks for
Failures ==
    {[sent |-> FALSE, status_ok |-> FALSE, json_ok |-> FALSE, body |-> NoBody],
     [sent |-> TRUE,  status_ok |-> TRUE,  json_ok |-> FALSE, body |-> NoBody],
     [sent |-> TRUE,  status_ok |-> FALSE, json_ok |-> FALSE, body |-> NoBody],
     [sent |-> TRUE,  status_ok |-> FALSE, json_ok |-> TRUE,  body |-> NoBody]}
OkResponse(b) == [sent |-> TRUE, status_ok |-> TRUE, json_ok |-> TRUE, body |-> b]
LoginResponses  == Failures \cup {OkResponse(b) : b \in AuthBodies}
SecretResponses == Failures \cup {OkResponse(b) : b \in SecretBodies}

\* Result<T>
Ok(v)  == [err |-> "", val |-> Some(v)]
Err(e) == [err |-> e,  val |-> None]

LoginRequest(role)   == [to |-> "login",  role |-> Some(role), x_vault_token |-> None]
\* the request of get_secret, mutated: the token header is left empty
SecretRequest_NoToken(token) ==
    [to |-> "secret", role |-> None, x_vault_token |-> Some("")]
SecretRequest(token) == [to |-> "secret", role |-> None, x_vault_token |-> Some(token)]
Exchange(req, res)   == [req |-> req, res |-> res]

----------------------------------------------------------------------------
(* client.rs: VaultClient *)

\* VaultClient::is_logged, mutated: a token due for renewal still counts
is_logged_IgnoreRenew(role) ==
    IsSome(auth[role]) /\ Auth_is_valid(Unwrap(auth[role]))

\* VaultClient::is_logged, mutated: only a leased token counts
is_logged_NeedsLease(role) ==
    /\ IsSome(auth[role])
    /\ IsSome(Unwrap(auth[role]).lease)
    /\ Auth_is_valid(Unwrap(auth[role]))
    /\ ~Auth_to_renew(Unwrap(auth[role]))

\* VaultClient::is_logged
is_logged(role) ==
    /\ IsSome(auth[role])
    /\ Auth_is_valid(Unwrap(auth[role]))
    /\ ~Auth_to_renew(Unwrap(auth[role]))

\* the Auth that login builds, mutated: renewable is not looked at
login_auth_AlwaysLease(body) ==
    LET lease_duration == unwrap_or(as_u64(body.lease_duration), 0)
    IN  Auth_new(unwrap_or(as_str(body.client_token), ""),
                 Some(from_secs(lease_duration)))

\* the Auth that login builds from an OK response
login_auth(body) ==
    LET lease_duration == unwrap_or(as_u64(body.lease_duration), 0)
        renewable      == unwrap_or(as_bool(body.renewable), FALSE)
    IN  Auth_new(unwrap_or(as_str(body.client_token), ""),
                 IF renewable THEN Some(from_secs(lease_duration)) ELSE None)

\* the body of VaultClient::login, mutated: a failed call drops the entry
LoginOp_EvictOnError(op, role, res) ==
    IF is_logged(role)
    THEN /\ wire' = <<>>
         /\ last' = [op |-> op, role |-> role, ret |-> Ok(Unwrap(auth[role]))]
         /\ UNCHANGED auth
    ELSE /\ wire' = <<Exchange(LoginRequest(role), res)>>
         /\ IF res.sent /\ res.status_ok /\ res.json_ok
            THEN /\ auth' = [auth EXCEPT ![role] = Some(login_auth(res.body))]
                 /\ last' = [op |-> op, role |-> role,
                             ret |-> Ok(Unwrap(auth'[role]))]
            ELSE /\ auth' = [auth EXCEPT ![role] = None]
                 /\ last' = [op |-> op, role |-> role,
                             ret |-> Err(IF ~res.sent THEN "ClientError"
                                         ELSE IF ~res.json_ok THEN "ParseError"
                                         ELSE "VaultError")]

\* the body of VaultClient::login, which login_async repeats line for line
\* with the transport awaited; op is the name recorded in last
LoginOp(op, role, res) ==
    IF is_logged(role)
    THEN /\ wire' = <<>>
         /\ last' = [op |-> op, role |-> role, ret |-> Ok(Unwrap(auth[role]))]
         /\ UNCHANGED auth
    ELSE /\ wire' = <<Exchange(LoginRequest(role), res)>>
         /\ IF ~res.sent
            THEN /\ last' = [op |-> op, role |-> role, ret |-> Err("ClientError")]
                 /\ UNCHANGED auth
            ELSE IF res.status_ok
            THEN IF ~res.json_ok
                 THEN /\ last' = [op |-> op, role |-> role, ret |-> Err("ParseError")]
                      /\ UNCHANGED auth
                 ELSE /\ auth' = [auth EXCEPT ![role] = Some(login_auth(res.body))]
                      /\ last' = [op |-> op, role |-> role,
                                  ret |-> Ok(Unwrap(auth'[role]))]
            ELSE IF ~res.json_ok
                 THEN /\ last' = [op |-> op, role |-> role, ret |-> Err("ParseError")]
                      /\ UNCHANGED auth
                 ELSE /\ last' = [op |-> op, role |-> role, ret |-> Err("VaultError")]
                      /\ UNCHANGED auth

\* the lease duration get_secret hands to Secret::new
secret_duration(body) ==
    LET got      == body.lease_duration
        mapped   == IF IsSome(got) THEN Some(unwrap_or(as_u64(got), 0)) ELSE None
        filtered == IF IsSome(mapped) /\ Unwrap(mapped) # 0 THEN mapped ELSE None
    IN  IF IsSome(filtered)
        THEN Some(from_secs((Unwrap(filtered) * 2) \div 3))
        ELSE None

\* the body of VaultClient::get_secret, which get_secret_async repeats line
\* for line with the transport awaited; built is whether Request::builder()
\* accepts the uri, the method and the token header
GetSecretOp(op, role, built, res) ==
    /\ UNCHANGED auth
    /\ IF auth[role] = None
       THEN /\ wire' = <<>>
            /\ last' = [op |-> op, role |-> role, ret |-> Err("NotLogged")]
       ELSE IF ~built
       THEN /\ wire' = <<>>
            /\ last' = [op |-> op, role |-> role, ret |-> Err("HttpError")]
       ELSE /\ wire' = <<Exchange(SecretRequest(Unwrap(auth[role]).client_token), res)>>
            /\ IF ~res.sent
               THEN last' = [op |-> op, role |-> role, ret |-> Err("ClientError")]
               ELSE IF res.status_ok
               THEN IF ~res.json_ok
                    THEN last' = [op |-> op, role |-> role, ret |-> Err("ParseError")]
                    ELSE last' = [op |-> op, role |-> role,
                                  ret |-> Ok(Secret_new("data", secret_duration(res.body)))]
               ELSE IF ~res.json_ok
                    THEN last' = [op |-> op, role |-> role, ret |-> Err("ParseError")]
                    ELSE last' = [op |-> op, role |-> role, ret |-> Err("VaultError")]

\* login(role)
Login ==
    \E role \in Roles, res \in LoginResponses :
        /\ LoginOp("login", role, res)
        /\ UNCHANGED <<now, leaseVars, parseVars>>

\* login_async(role): &mut self keeps every other caller out until it returns,
\* so the awaits inside add no interleaving and the result is that of login
LoginAsync ==
    \E role \in Roles, res \in LoginResponses :
        /\ LoginOp("login", role, res)
        /\ UNCHANGED <<now, leaseVars, parseVars>>

\* get_secret(role, method, path, kwargs)
GetSecret ==
    \E role \in Roles, built \in BOOLEAN, res \in SecretResponses :
        /\ GetSecretOp("get_secret", role, built, res)
        /\ UNCHANGED <<now, leaseVars, parseVars>>

\* get_secret_async(role, method, path, kwargs): the cache is only read
GetSecretAsync ==
    \E role \in Roles, built \in BOOLEAN, res \in SecretResponses :
        /\ GetSecretOp("get_secret", role, built, res)
        /\ UNCHANGED <<now, leaseVars, parseVars>>

----------------------------------------------------------------------------
(* Strings are sequences of one-character strings *)

Letters    == {"a", "c", "k", "v"}
\* the characters the exhaustive inputs are drawn from
Chars      == {"v", "/", ":", ",", "=", "#"}

\* char::is_ascii_alphabetic, as nom's alpha1 uses it
is_alpha(ch) == ch \in Letters

\* &s[from..to] with Rust's 0-based, end-exclusive bounds
Slice(s, from, to) == SubSeq(s, from + 1, to)

\* str::find(ch): the 0-based index of the first ch
str_find(s, ch) ==
    IF \E i \in 1..Len(s) : s[i] = ch
    THEN Some((CHOOSE i \in 1..Len(s) : s[i] = ch /\ \A j \in 1..(i - 1) : s[j] # ch) - 1)
    ELSE None

\* str::rfind(ch): the 0-based index of the last ch
str_rfind(s, ch) ==
    IF \E i \in 1..Len(s) : s[i] = ch
    THEN Some((CHOOSE i \in 1..Len(s) : s[i] = ch /\ \A j \in (i + 1)..Len(s) : s[j] # ch) - 1)
    ELSE None

\* str::split(ch) collected: the pieces between the separators, empty ones kept
RECURSIVE str_split(_, _)
str_split(s, ch) ==
    LET f == str_find(s, ch)
    IN  IF IsSome(f)
        THEN <<Slice(s, 0, Unwrap(f))>> \o str_split(Slice(s, Unwrap(f) + 1, Len(s)), ch)
        ELSE <<s>>

\* [&str]::join(sep)
RECURSIVE str_join(_, _)
str_join(list, sep) ==
    IF list = <<>> THEN <<>>
    ELSE IF Len(list) = 1 THEN list[1]
    ELSE list[1] \o sep \o str_join(Tail(list), sep)

----------------------------------------------------------------------------
(* The backend type T of the tests: Vault and Const.  The model spells    *)
(* the two names with one letter each, "v" and "c".                       *)

VaultName == <<"v">>
ConstName == <<"c">>

\* parse errors carry the text they complain about
PErr(kind, data) == [err |-> kind, data |-> data, val |-> None]
POk(v)           == [err |-> "",   data |-> <<>>, val |-> Some(v)]

\* impl TryFrom<&str> for Backend
Backend_try_from(value) ==
    IF value = VaultName THEN POk("Vault")
    ELSE IF value = ConstName THEN POk("Const")
    ELSE PErr("UnknowBackend", value)

\* impl Display for Backend
Backend_fmt(b) ==
    IF b = "Vault" THEN VaultName ELSE ConstName

----------------------------------------------------------------------------
(* parser_simple.rs: SecretPathIterator *)

\* SecretPathIterator::new
SecretPathIterator_new(s) == [remainder |-> s, pos |-> "Backend"]

\* a call on &mut self gives the value returned and the iterator afterwards
Returned(ret, self) == [ret |-> ret, self |-> self]

\* SecretPathIterator::yield_remainder
yield_remainder(self) ==
    IF self.remainder = <<>>
    THEN Returned(None, self)
    ELSE Returned(Some(self.remainder), [self EXCEPT !.remainder = <<>>])

\* SecretPathIterator::yield_colon, mutated: the remainder starts one
\* character too far after the ':'
yield_colon_SkipsOne(self) ==
    LET f == str_find(self.remainder, ":")
    IN  IF IsSome(f)
        THEN LET pos == Unwrap(f)
                 res == Slice(self.remainder, 0, pos)
             IN  Returned(Some(res),
                          [self EXCEPT !.remainder =
                              IF pos + 2 < Len(self.remainder)
                              THEN Slice(self.remainder, pos + 2, Len(self.remainder))
                              ELSE <<>>])
        ELSE Returned(None, self)

\* SecretPathIterator::yield_colon
yield_colon(self) ==
    LET f == str_find(self.remainder, ":")
    IN  IF IsSome(f)
        THEN LET pos == Unwrap(f)
                 res == Slice(self.remainder, 0, pos)
             IN  Returned(Some(res),
                          [self EXCEPT !.remainder =
                              IF pos + 1 < Len(self.remainder)
                              THEN Slice(self.remainder, pos + 1, Len(self.remainder))
                              ELSE <<>>])
        ELSE Returned(None, self)

\* Iterator::next, mutated: the Path state stops at the next ':' as well
next_PathToColon(self) ==
    IF self.remainder = <<>>
    THEN Returned(None, self)
    ELSE IF self.pos = "Backend" THEN yield_colon([self EXCEPT !.pos = "Args"])
    ELSE IF self.pos = "Args" THEN yield_colon([self EXCEPT !.pos = "Path"])
    ELSE yield_colon(self)

\* Iterator::next for SecretPathIterator
next(self) ==
    IF self.remainder = <<>>
    THEN Returned(None, self)
    ELSE IF self.pos = "Backend" THEN yield_colon([self EXCEPT !.pos = "Args"])
    ELSE IF self.pos = "Args" THEN yield_colon([self EXCEPT !.pos = "Path"])
    ELSE yield_remainder(self)

----------------------------------------------------------------------------
(* parser_simple.rs: SecretPath::try_from, the scanner *)

\* the (path, anchor) pair cut at the last '#'
split_anchor(path_anchor) ==
    LET f == str_rfind(path_anchor, "#")
    IN  IF IsSome(f)
        THEN LET i == Unwrap(f)
                 anchor == IF i + 1 = Len(path_anchor)
                           THEN <<>>
                           ELSE Slice(path_anchor, i + 1, Len(path_anchor))
             IN  <<Slice(path_anchor, 0, i), Some(anchor)>>
        ELSE <<path_anchor, None>>

\* the loop below, mutated: a keyword argument is cut at its last '='
RECURSIVE split_args_LastEq(_, _, _)
split_args_LastEq(list, args, kwargs) ==
    IF list = <<>> THEN <<args, kwargs>>
    ELSE LET arg == Head(list)
             f   == str_rfind(arg, "=")
         IN  IF IsSome(f)
             THEN split_args_LastEq(Tail(list), args,
                      Append(kwargs, <<Slice(arg, 0, Unwrap(f)),
                                       Slice(arg, Unwrap(f) + 1, Len(arg))>>))
             ELSE split_args_LastEq(Tail(list), Append(args, arg), kwargs)

\* the loop that splits simple and keyword arguments in separate lists
RECURSIVE split_args(_, _, _)
split_args(list, args, kwargs) ==
    IF list = <<>> THEN <<args, kwargs>>
    ELSE LET arg == Head(list)
             f   == str_find(arg, "=")
         IN  IF IsSome(f)
             THEN split_args(Tail(list), args,
                      Append(kwargs, <<Slice(arg, 0, Unwrap(f)),
                                       Slice(arg, Unwrap(f) + 1, Len(arg))>>))
             ELSE split_args(Tail(list), Append(args, arg), kwargs)

\* SecretPath::try_from of parser_simple.rs; the field this file names
\* path_anchor is the field full_path of the struct in secret.rs
simple_try_from(path) ==
    LET n1 == next(SecretPathIterator_new(path))
    IN  IF n1.ret = None THEN PErr("NoBackend", <<>>)
        ELSE
        LET backend_str == Unwrap(n1.ret)
            backend     == Backend_try_from(backend_str)
        IN  IF backend.err # "" THEN PErr("UnknowBackend", backend_str)
            ELSE
            LET n2 == next(n1.self)
            IN  IF n2.ret = None THEN PErr("NoArgs", path)
                ELSE
                LET args_ == Unwrap(n2.ret)
                    n3    == next(n2.self)
                IN  IF n3.ret = None THEN PErr("NoPath", args_)
                    ELSE
                    LET path_anchor == Unwrap(n3.ret)
                        pa          == split_anchor(path_anchor)
                        split       == split_args(str_split(args_, ","), <<>>, <<>>)
                    IN  POk([backend   |-> Unwrap(backend.val),
                             args      |-> split[1],
                             kwargs    |-> IF split[2] = <<>> THEN None ELSE Some(split[2]),
                             full_path |-> path_anchor,
                             path      |-> pa[1],
                             anchor    |-> pa[2]])

----------------------------------------------------------------------------
(* secret.rs: impl Display for SecretPath *)

RECURSIVE fmt_kwargs(_)
fmt_kwargs(kwargs) ==
    IF kwargs = <<>> THEN <<>>
    ELSE <<",">> \o kwargs[1][1] \o <<"=">> \o kwargs[1][2] \o fmt_kwargs(Tail(kwargs))

\* SecretPath::fmt
SecretPath_fmt(sp) ==
    Backend_fmt(sp.backend) \o <<":">>
        \o str_join(sp.args, <<",">>)
        \o (IF IsSome(sp.kwargs) THEN fmt_kwargs(Unwrap(sp.kwargs)) ELSE <<>>)
        \o <<":">> \o sp.full_path

----------------------------------------------------------------------------
(* parser.rs: the nom combinators, each a function from the input to an   *)
(* IResult: Ok((rest, out)), Err::Error(e) or Err::Failure(e)             *)

NomOk(rest, out) == [res |-> "Ok", rest |-> rest, out |-> out, e |-> PErr("", <<>>)]
NomError(e)      == [res |-> "Error", rest |-> <<>>, out |-> <<>>, e |-> e]
NomFailure(e)    == [res |-> "Failure", rest |-> <<>>, out |-> <<>>, e |-> e]

\* ParseError::from_error_kind for Error
from_error_kind(i, kind) == PErr("Nom", i)

\* the length of the longest prefix of i made of characters outside stop
RECURSIVE span_not(_, _)
span_not(stop, i) ==
    IF i = <<>> \/ Head(i) \in stop THEN 0 ELSE 1 + span_not(stop, Tail(i))

\* the length of the longest alphabetic prefix of i
RECURSIVE span_alpha(_)
span_alpha(i) ==
    IF i = <<>> \/ ~is_alpha(Head(i)) THEN 0 ELSE 1 + span_alpha(Tail(i))

\* nom is_not(stop): at least one character, up to the first one in stop
is_not(stop, i) ==
    LET n == span_not(stop, i)
    IN  IF n = 0 THEN NomError(from_error_kind(i, "IsNot"))
        ELSE NomOk(Slice(i, n, Len(i)), Slice(i, 0, n))

\* nom alpha1
alpha1(i) ==
    LET n == span_alpha(i)
    IN  IF n = 0 THEN NomError(from_error_kind(i, "Alpha"))
        ELSE NomOk(Slice(i, n, Len(i)), Slice(i, 0, n))

\* nom tag(t)
tag(t, i) ==
    IF Len(i) >= Len(t) /\ Slice(i, 0, Len(t)) = t
    THEN NomOk(Slice(i, Len(t), Len(i)), t)
    ELSE NomError(from_error_kind(i, "Tag"))

\* nom rest
rest(i) == NomOk(<<>>, i)

\* a parser run after another: nom's sequence combinators (tuple, terminated,
\* preceded, separated_pair) hand the first Err back and go on after an Ok
Then(r, K(_)) == IF r.res # "Ok" THEN r ELSE K(r)

\* the loop of many1(is_not(stop)) after its first match: where it stops
RECURSIVE many1_loop(_, _)
many1_step(stop, i, r) ==
    IF r.res = "Error" THEN NomOk(i, <<>>)
    ELSE IF r.res # "Ok" THEN r
    ELSE IF Len(r.rest) = Len(i) THEN NomError(from_error_kind(i, "Many1"))
    ELSE many1_loop(stop, r.rest)

many1_loop(stop, i) == many1_step(stop, i, is_not(stop, i))

\* recognize(many1(is_not(stop))): the input consumed by one or more is_not
recognize_many1_is_not(stop, i) ==
    Then(is_not(stop, i), LAMBDA first :
    Then(many1_loop(stop, first.rest), LAMBDA more :
        NomOk(more.rest, Slice(i, 0, Len(i) - Len(more.rest)))))

\* no_args
no_args(i) == NomFailure(PErr("NoArgs", i))

\* no_path
no_path(i) == NomFailure(PErr("NoPath", i))

\* literal
literal(i) == recognize_many1_is_not({":", ",", "="}, i)

\* path
path(i) == recognize_many1_is_not({"#"}, i)

\* map_res(_, T::try_from) on the output of alpha1; from_external_error
\* keeps T's own error
map_res_try_from(r, b) ==
    IF b.err = "" THEN NomOk(r.rest, Unwrap(b.val)) ELSE NomError(b)

\* backend: map_res(alpha1, T::try_from)
backend(i) ==
    Then(alpha1(i), LAMBDA r : map_res_try_from(r, Backend_try_from(r.out)))

Arg(s)      == [tag |-> "Arg",   s |-> s,    k |-> <<>>, v |-> <<>>]
KwArg(k, v) == [tag |-> "KwArg", s |-> <<>>, k |-> k,    v |-> v]

\* kwarg: map(separated_pair(literal, tag("="), literal), Arg::KwArg)
kwarg(i) ==
    Then(literal(i), LAMBDA k :
    Then(tag(<<"=">>, k.rest), LAMBDA eq :
    Then(literal(eq.rest), LAMBDA v :
        NomOk(v.rest, KwArg(k.out, v.out)))))

\* arg: map(literal, Arg::Arg)
arg(i) ==
    Then(literal(i), LAMBDA r : NomOk(r.rest, Arg(r.out)))

\* alt((first, second)): second is tried when first gives Err::Error
alt(first, second) == IF first.res = "Error" THEN second ELSE first

\* alt((kwarg, arg))
kwarg_or_arg(i) == alt(kwarg(i), arg(i))

\* the loop of separated_list1(tag(","), alt((kwarg, arg))) after its first
\* element: i is the input left, res the elements so far
RECURSIVE separated_loop(_, _)
separated_element(i, res, el) ==
    IF el.res = "Error" THEN NomOk(i, res)
    ELSE IF el.res # "Ok" THEN el
    ELSE separated_loop(el.rest, Append(res, el.out))

separated_separator(i, res, sep) ==
    IF sep.res = "Error" THEN NomOk(i, res)
    ELSE IF sep.res # "Ok" THEN sep
    ELSE IF Len(sep.rest) = Len(i)
    THEN NomError(from_error_kind(sep.rest, "SeparatedList"))
    ELSE separated_element(i, res, kwarg_or_arg(sep.rest))

separated_loop(i, res) == separated_separator(i, res, tag(<<",">>, i))

\* arg1: separated_list1(tag(","), alt((kwarg, arg)))
arg1(i) ==
    Then(kwarg_or_arg(i), LAMBDA first : separated_loop(first.rest, <<first.out>>))

\* splitargs
RECURSIVE splitargs_loop(_, _, _)
splitargs_loop(list, args_, kwargs_) ==
    IF list = <<>> THEN <<args_, IF kwargs_ = <<>> THEN None ELSE Some(kwargs_)>>
    ELSE IF Head(list).tag = "Arg"
    THEN splitargs_loop(Tail(list), Append(args_, Head(list).s), kwargs_)
    ELSE splitargs_loop(Tail(list), args_, Append(kwargs_, <<Head(list).k, Head(list).v>>))

splitargs(args) == splitargs_loop(args, <<>>, <<>>)

\* alt((tag(":"), no_args))
colon_or_no_args(i) == alt(tag(<<":">>, i), no_args(i))

\* alt((tag(":"), no_path))
colon_or_no_path(i) == alt(tag(<<":">>, i), no_path(i))

\* opt(p): an Err::Error of p becomes Ok(None) on the same input
opt(i, r) ==
    IF r.res = "Error" THEN NomOk(i, None)
    ELSE IF r.res # "Ok" THEN r
    ELSE NomOk(r.rest, Some(r.out))

\* opt(preceded(tag("#"), rest)), mutated: the anchor is read like a path,
\* up to the next '#'
opt_anchor_UpToHash(i) ==
    opt(i, Then(tag(<<"#">>, i), LAMBDA h : path(h.rest)))

\* opt(preceded(tag("#"), rest))
opt_anchor(i) ==
    opt(i, Then(tag(<<"#">>, i), LAMBDA h : rest(h.rest)))

\* secret_path: tuple((terminated(backend, alt((tag(":"), no_args))),
\* terminated(arg1, alt((tag(":"), no_path))), path, opt(preceded(tag("#"), rest))))
secret_path(i) ==
    Then(backend(i), LAMBDA b :
    Then(colon_or_no_args(b.rest), LAMBDA bc :
    Then(arg1(bc.rest), LAMBDA a :
    Then(colon_or_no_path(a.rest), LAMBDA ac :
    Then(path(ac.rest), LAMBDA p :
    Then(opt_anchor(p.rest), LAMBDA h :
        NomOk(h.rest, <<b.out, a.out, p.out, h.out>>)))))))

\* the SecretPath that try_from builds from the output of secret_path
nom_secret_path(out, split) ==
    [backend |-> out[1],
     args    |-> split[1],
     kwargs  |-> split[2],
     path    |-> out[3],
     anchor  |-> out[4]]

\* the steps of try_from after secret_path returned r
nom_finish(r) ==
    IF r.res # "Ok" THEN r.e
    ELSE IF r.rest # <<>> THEN PErr("ExtraData", r.rest)
    ELSE POk(nom_secret_path(r.out, splitargs(r.out[2])))

\* SecretPath::try_from of parser.rs; it leaves the field full_path out
nom_try_from(path_) ==
    IF path_ = <<>> THEN PErr("NoBackend", <<>>)
    ELSE nom_finish(secret_path(path_))

----------------------------------------------------------------------------
(* Initial states and specifications *)

NoOp == [op |-> "none", role |-> "", ret |-> Err("")]
NoIterator == [remainder |-> <<>>, pos |-> "Backend"]

\* VaultClient::new: an empty auth cache; nothing built, nothing parsed
InitBase ==
    /\ now = 0
    /\ auth = [r \in Roles |-> None]
    /\ last = NoOp
    /\ wire = <<>>
    /\ obj = NoObj
    /\ made = 0
    /\ yielded = <<>>
    /\ simple = None
    /\ nom = None
    /\ shown = None

Init ==
    /\ InitBase
    /\ input = <<>>
    /\ it = NoIterator

Next ==
    \/ Login
    \/ LoginAsync
    \/ GetSecret
    \/ GetSecretAsync
    \/ Tick

Spec == Init /\ [][Next]_vars

----------------------------------------------------------------------------
(* SpecParse: the iterator and the two parsers applied to one input *)

\* the longest input of the exhaustive part, in characters
MaxLen == 4
\* the most arguments of a composed input
MaxArgs == 3
\* the most calls of next() on one iterator
MaxCalls == 5

\* every string over Chars of at most MaxLen characters
ShortStrings == UNION {[1..n -> Chars] : n \in 0..MaxLen}

\* longer inputs of the shape backend:arg,...:tail
ArgItems == {<<"a">>, <<"k", "=", "v">>, <<"k", "=", "/">>,
             <<"k", "=", "a", "=", "v">>}
ArgLists == UNION {[1..n -> ArgItems] : n \in 1..MaxArgs}
Tails    == {<<"/">>, <<"/", "#", "a">>, <<"/", "#">>,
             <<"/", "#", "a", "#", "k">>, <<"/", ":", "a">>}
Composed ==
    {b \o <<":">> \o str_join(l, <<",">>) \o <<":">> \o t :
        b \in {VaultName, ConstName}, l \in ArgLists, t \in Tails}

Inputs == ShortStrings \cup Composed

InitParse ==
    /\ InitBase
    /\ input \in Inputs
    /\ it = SecretPathIterator_new(input)

\* one call of it.next()
IterNext ==
    /\ Len(yielded) < MaxCalls
    /\ simple = None /\ nom = None
    /\ it' = next(it).self
    /\ yielded' = Append(yielded, next(it).ret)
    /\ UNCHANGED <<now, clientVars, leaseVars, input, simple, nom, shown>>

\* SecretPath::try_from(input) with the scanner
ScannerTryFrom ==
    /\ yielded = <<>>
    /\ simple = None
    /\ simple' = Some(simple_try_from(input))
    /\ UNCHANGED <<now, clientVars, leaseVars, input, it, yielded, nom, shown>>

\* SecretPath::try_from(input) with the combinators
CombinatorTryFrom ==
    /\ yielded = <<>>
    /\ nom = None
    /\ nom' = Some(nom_try_from(input))
    /\ UNCHANGED <<now, clientVars, leaseVars, input, it, yielded, simple, shown>>

\* to_string() of the SecretPath the scanner returned
Display ==
    /\ IsSome(simple) /\ Unwrap(simple).err = ""
    /\ shown = None
    /\ shown' = Some(SecretPath_fmt(Unwrap(Unwrap(simple).val)))
    /\ UNCHANGED <<now, clientVars, leaseVars, input, it, yielded, simple, nom>>

NextParse ==
    \/ IterNext
    \/ ScannerTryFrom
    \/ CombinatorTryFrom
    \/ Display

SpecParse == InitParse /\ [][NextParse]_vars

NextLease ==
    \/ \E dur \in Durations : NewLease(dur)
    \/ \E dur \in OptDurations : NewSecret(dur)
    \/ \E token \in Tokens, dur \in OptDurations : NewAuth(token, dur)
    \/ Tick

SpecLease == Init /\ [][NextLease]_vars

----------------------------------------------------------------------------
(* The properties *)

\* a step of login or login_async (LoginStep), of get_secret or
\* get_secret_async (SecretStep) on role r: every client operation records itself in
\* last and leaves the clock alone, and Tick is the only other step of Spec
LoginStep(r)  == now' = now /\ last'.op = "login" /\ last'.role = r
SecretStep(r) == now' = now /\ last'.op = "get_secret" /\ last'.role = r

\* the cached Auth of role r is valid and not due for renewal
CachedUsable(r) ==
    /\ IsSome(auth[r])
    /\ Auth_is_valid(Unwrap(auth[r]))
    /\ ~Auth_to_renew(Unwrap(auth[r]))

\* C1: round-trip law. Whenever the scanner accepts an input, Display of the
\* parsed SecretPath is exactly that input.
C1_RoundTrip ==
    IsSome(shown) => Unwrap(shown) = input

\* C2: an Auth with an empty client_token is never valid, whatever its lease
\* (absent, unexpired or expired) and whatever the time.
C2_EmptyTokenNeverValid ==
    (obj.kind = "Auth" /\ obj.client_token = "") => ~Auth_is_valid(obj)

\* C3: login(role) with a cached Auth that is valid and not due for renewal
\* makes no transport call, leaves the whole cache unchanged and returns the
\* cached Auth.
C3_LoginNoOp ==
    [][\A r \in Roles :
          (LoginStep(r) /\ CachedUsable(r)) =>
              /\ wire' = <<>>
              /\ auth' = auth
              /\ last'.ret = Ok(Unwrap(auth[r]))]_vars

\* a login that returned the cached Auth without any exchange
C3_Witness ==
    /\ last.op = "login"
    /\ wire = <<>>
    /\ IsSome(auth[last.role])
    /\ last.ret = Ok(Unwrap(auth[last.role]))

\* the Auth the claim expects from an OK login response read at time t
C4_AuthOf(body, t) ==
    [client_token |-> IF IsSome(body.client_token) /\ Unwrap(body.client_token).t = "str"
                      THEN Unwrap(body.client_token).s ELSE "",
     lease |-> IF IsSome(body.renewable) /\ Unwrap(body.renewable) = JBool(TRUE)
               THEN LET secs == IF IsSome(body.lease_duration)
                                   /\ Unwrap(body.lease_duration).t = "u64"
                                THEN Unwrap(body.lease_duration).n ELSE 0
                    IN  Some([time |-> t,
                              lease_duration |-> secs * TicksPerSec,
                              renew_delay |-> (2 * secs * TicksPerSec) \div 3])
               ELSE None]

\* C4: login(role) with no cached Auth, or one that is invalid or due for
\* renewal, calls the transport exactly once; when the call succeeds the entry
\* of role becomes the Auth built from the response and that Auth is returned;
\* the entries of the other roles stay as they were.
C4_LoginCallsOnce ==
    [][\A r \in Roles :
          (LoginStep(r) /\ ~CachedUsable(r)) =>
              /\ Len(wire') = 1
              /\ wire'[1].req = LoginRequest(r)
              /\ LET res == wire'[1].res
                 IN  (res.sent /\ res.status_ok /\ res.json_ok) =>
                        /\ auth'[r] = Some(C4_AuthOf(res.body, now))
                        /\ last'.ret = Ok(C4_AuthOf(res.body, now))
              /\ \A q \in Roles \ {r} : auth'[q] = auth[q]
              /\ \A q \in Roles : Len(auth'[q]) <= 1]_vars

\* a login that replaced a stale entry while the other role stayed logged in
C4_Witness ==
    /\ last.op = "login"
    /\ last.ret.err = ""
    /\ Len(wire) = 1
    /\ wire[1].res.body.renewable = Some(JBool(TRUE))
    /\ auth[last.role] = last.ret.val
    /\ Unwrap(auth[last.role]).lease # None
    /\ Unwrap(Unwrap(auth[last.role]).lease).time > 0
    /\ \E q \in Roles \ {last.role} : IsSome(auth[q])

\* C5 as claimed: get_secret fails with NotLogged, without a transport call,
\* exactly when no Auth is cached for role; with an Auth cached it makes
\* exactly one transport call carrying that Auth's client_token; it never
\* modifies the cache.
C5_GetSecretAsClaimed ==
    [][\A r \in Roles :
          SecretStep(r) =>
              /\ (last'.ret.err = "NotLogged") <=> (auth[r] = None)
              /\ (auth[r] = None) => wire' = <<>>
              /\ IsSome(auth[r]) =>
                    /\ Len(wire') = 1
                    /\ wire'[1].req.x_vault_token = Some(Unwrap(auth[r]).client_token)
              /\ auth' = auth]_vars

\* C5 amended: with an Auth cached, get_secret either fails with HttpError
\* before any transport call (the request could not be built) or makes exactly
\* one transport call carrying that Auth's client_token, valid or not; the
\* rest as claimed.
C5_GetSecret ==
    [][\A r \in Roles :
          SecretStep(r) =>
              /\ (last'.ret.err = "NotLogged") <=> (auth[r] = None)
              /\ (auth[r] = None) => wire' = <<>>
              /\ IsSome(auth[r]) =>
                    \/ /\ last'.ret.err = "HttpError"
                       /\ wire' = <<>>
                    \/ /\ last'.ret.err # "HttpError"
                       /\ Len(wire') = 1
                       /\ wire'[1].req.to = "secret"
                       /\ wire'[1].req.x_vault_token = Some(Unwrap(auth[r]).client_token)
              /\ auth' = auth]_vars

\* a get_secret that sent the token of a cached Auth that is not valid
C5_Witness ==
    /\ last.op = "get_secret"
    /\ IsSome(auth[last.role])
    /\ Unwrap(auth[last.role]).lease = None
    /\ ~Auth_is_valid(Unwrap(auth[last.role]))
    /\ Len(wire) = 1
    /\ wire[1].req.x_vault_token = Some(Unwrap(auth[last.role]).client_token)

\* C6: a successful get_secret whose response reports lease_duration L > 0
\* returns a Secret whose lease lasts L and is due for renewal after 2/3 of L.
C6_SecretLeaseIsRemote ==
    (/\ last.op = "get_secret"
     /\ last.ret.err = ""
     /\ unwrap_or(as_u64(wire[1].res.body.lease_duration), 0) > 0) =>
        LET L     == Unwrap(as_u64(wire[1].res.body.lease_duration))
            lease == Unwrap(last.ret.val).lease
        IN  /\ IsSome(lease)
            /\ Unwrap(lease).lease_duration = L * TicksPerSec
            /\ Unwrap(lease).renew_delay = (2 * L * TicksPerSec) \div 3

\* C7: the scanner and the combinator parser agree on every input: both
\* succeed with the same backend, args, kwargs, path and anchor, or both fail
\* with the same error kind.
C7_ParsersAgree ==
    (IsSome(simple) /\ IsSome(nom)) =>
        LET s == Unwrap(simple)
            n == Unwrap(nom)
        IN  \/ /\ s.err = "" /\ n.err = ""
               /\ Unwrap(s.val).backend = Unwrap(n.val).backend
               /\ Unwrap(s.val).args    = Unwrap(n.val).args
               /\ Unwrap(s.val).kwargs  = Unwrap(n.val).kwargs
               /\ Unwrap(s.val).path    = Unwrap(n.val).path
               /\ Unwrap(s.val).anchor  = Unwrap(n.val).anchor
            \/ /\ s.err # "" /\ n.err # ""
               /\ s.err = n.err

\* C8: at the instant a lease of positive duration is created, the Lease is
\* valid and not due for renewal, and so is the Secret or the Auth (with a
\* non-empty token) that holds it.
C8_FreshLease ==
    (/\ IsSome(obj.lease)
     /\ Unwrap(obj.lease).lease_duration > 0
     /\ now = Unwrap(obj.lease).time
     /\ (obj.kind = "Auth" => obj.client_token # "")) =>
        /\ Lease_is_valid(Unwrap(obj.lease))
        /\ ~Lease_to_renew(Unwrap(obj.lease))
        /\ (obj.kind = "Secret" => Secret_is_valid(obj) /\ ~Secret_to_renew(obj))
        /\ (obj.kind = "Auth" => Auth_is_valid(obj) /\ ~Auth_to_renew(obj))

\* a Secret just created, later than the start of the clock, with a duration
\* so short that its renew delay rounds down to zero
C8_Witness ==
    /\ obj.kind = "Secret"
    /\ IsSome(obj.lease)
    /\ Unwrap(obj.lease).lease_duration = 1
    /\ Unwrap(obj.lease).renew_delay = 0
    /\ now = Unwrap(obj.lease).time
    /\ now > 0

\* C9: a Lease of duration zero is never valid and never due for renewal,
\* however much time has passed; a Secret created with Some(0) is never valid.
C9_ZeroLease ==
    (IsSome(obj.lease) /\ Unwrap(obj.lease).lease_duration = 0) =>
        /\ ~Lease_is_valid(Unwrap(obj.lease))
        /\ ~Lease_to_renew(Unwrap(obj.lease))
        /\ (obj.kind = "Secret" => ~Secret_is_valid(obj) /\ ~Secret_to_renew(obj))

\* a Secret created with Some(0), some time after its creation
C9_Witness ==
    /\ obj.kind = "Secret"
    /\ IsSome(obj.lease)
    /\ Unwrap(obj.lease).lease_duration = 0
    /\ now > Unwrap(obj.lease).time

\* C10: a Secret created without a duration is valid and not due for renewal
\* at every later time.
C10_NoLeaseSecret ==
    (obj.kind = "Secret" /\ obj.lease = None) =>
        /\ Secret_is_valid(obj)
        /\ ~Secret_to_renew(obj)

\* a Secret without lease, with the clock at its end, well after its creation
C10_Witness ==
    /\ obj.kind = "Secret"
    /\ obj.lease = None
    /\ made = 0
    /\ now = MaxTime

----------------------------------------------------------------------------
(* The grammar of the secret path, read off the input text itself *)

\* the indices of the input at which ch stands
Positions(s, ch) == {i \in 1..Len(s) : s[i] = ch}

\* the index of the k-th ch of s, counted from 1
KthPosition(s, ch, k) ==
    CHOOSE i \in Positions(s, ch) :
        Cardinality({j \in Positions(s, ch) : j < i}) = k - 1

\* the text between the first and the second ':' and the text after the second
ArgsText(s) ==
    SubSeq(s, KthPosition(s, ":", 1) + 1, KthPosition(s, ":", 2) - 1)
AfterSecondColon(s) ==
    SubSeq(s, KthPosition(s, ":", 2) + 1, Len(s))

\* the scanner's and the combinator parser's result on input, once computed
ScannerAccepted    == IsSome(simple) /\ Unwrap(simple).err = ""
CombinatorAccepted == IsSome(nom) /\ Unwrap(nom).err = ""
ScannerPath    == Unwrap(Unwrap(simple).val)
CombinatorPath == Unwrap(Unwrap(nom).val)

\* C11: a non-empty input that contains no ':' fails with NoArgs, whichever
\* parser reads it.
C11_NoColonIsNoArgs ==
    (input # <<>> /\ Positions(input, ":") = {}) =>
        /\ IsSome(simple) => Unwrap(simple).err = "NoArgs"
        /\ IsSome(nom) => Unwrap(nom).err = "NoArgs"

\* the input is a recognized backend, one ':' and a non-empty argument list
BackendAndArgsOnly(s) ==
    /\ Cardinality(Positions(s, ":")) = 1
    /\ SubSeq(s, 1, KthPosition(s, ":", 1) - 1) \in {VaultName, ConstName}
    /\ KthPosition(s, ":", 1) < Len(s)

\* C12: an input made of a recognized backend, exactly one ':' and a
\* non-empty argument list fails with NoPath, whichever parser reads it.
C12_NoSecondColonIsNoPath ==
    BackendAndArgsOnly(input) =>
        /\ IsSome(simple) => Unwrap(simple).err = "NoPath"
        /\ IsSome(nom) => Unwrap(nom).err = "NoPath"

\* the (path, anchor) pair of a tail cut at its last '#'
LastHashSplit(tail) ==
    IF Positions(tail, "#") = {}
    THEN [path |-> tail, anchor |-> None]
    ELSE LET h == CHOOSE i \in Positions(tail, "#") :
                      \A j \in Positions(tail, "#") : j <= i
         IN  [path |-> SubSeq(tail, 1, h - 1),
              anchor |-> Some(SubSeq(tail, h + 1, Len(tail)))]

\* C13: for every accepted input the text after the second ':' is cut at its
\* last '#' into path and anchor: the anchor is Some("") when '#' ends the
\* input and None, with the whole tail as path, when there is no '#'.
C13_AnchorAtLastHash ==
    /\ ScannerAccepted =>
          /\ Cardinality(Positions(input, ":")) >= 2
          /\ ScannerPath.path = LastHashSplit(AfterSecondColon(input)).path
          /\ ScannerPath.anchor = LastHashSplit(AfterSecondColon(input)).anchor
    /\ CombinatorAccepted =>
          /\ Cardinality(Positions(input, ":")) >= 2
          /\ CombinatorPath.path = LastHashSplit(AfterSecondColon(input)).path
          /\ CombinatorPath.anchor = LastHashSplit(AfterSecondColon(input)).anchor

\* path and anchor written back as path#anchor
PathAndAnchor(sp) ==
    sp.path \o (IF IsSome(sp.anchor) THEN <<"#">> \o Unwrap(sp.anchor) ELSE <<>>)

\* C14: the boundary between arguments and path is the second ':' of the
\* input: the full path of an accepted input is the whole text after that
\* ':', further ':' included.
C14_SecondColonIsBoundary ==
    /\ ScannerAccepted =>
          /\ Cardinality(Positions(input, ":")) >= 2
          /\ ScannerPath.full_path = AfterSecondColon(input)
          /\ PathAndAnchor(ScannerPath) = AfterSecondColon(input)
    /\ CombinatorAccepted =>
          /\ Cardinality(Positions(input, ":")) >= 2
          /\ PathAndAnchor(CombinatorPath) = AfterSecondColon(input)

\* both parsers accepted an input whose path holds a third ':'
C14_Witness ==
    /\ ScannerAccepted
    /\ CombinatorAccepted
    /\ Cardinality(Positions(input, ":")) = 3
    /\ Positions(ScannerPath.full_path, ":") # {}
    /\ Positions(CombinatorPath.path, ":") # {}

\* the comma-separated items of an argument text, in input order
Items(t) ==
    LET n        == Cardinality(Positions(t, ",")) + 1
        start(j) == IF j = 1 THEN 1 ELSE KthPosition(t, ",", j - 1) + 1
        end(j)   == IF j = n THEN Len(t) ELSE KthPosition(t, ",", j) - 1
    IN  [j \in 1..n |-> SubSeq(t, start(j), end(j))]

HasEq(item) == Positions(item, "=") # {}
NoEq(item)  == Positions(item, "=") = {}

\* an item cut at its first '=' into (key, value)
KeyValue(item) ==
    LET e == CHOOSE i \in Positions(item, "=") :
                 \A j \in Positions(item, "=") : i <= j
    IN  <<SubSeq(item, 1, e - 1), SubSeq(item, e + 1, Len(item))>>

\* the args and kwargs the claim expects for an argument text
ExpectedArgs(t) == SelectSeq(Items(t), NoEq)
ExpectedKwargs(t) ==
    LET with == SelectSeq(Items(t), HasEq)
    IN  IF with = <<>> THEN None
        ELSE Some([j \in 1..Len(with) |-> KeyValue(with[j])])

\* C15: for every accepted input, args is the list of the comma-separated
\* items without '=' and kwargs the list of those with '=', both in input
\* order, each keyword item cut at its first '=' and duplicate keys kept;
\* kwargs is absent exactly when no item holds '='.
C15_ArgumentPartition ==
    /\ ScannerAccepted =>
          /\ ScannerPath.args = ExpectedArgs(ArgsText(input))
          /\ ScannerPath.kwargs = ExpectedKwargs(ArgsText(input))
    /\ CombinatorAccepted =>
          /\ CombinatorPath.args = ExpectedArgs(ArgsText(input))
          /\ CombinatorPath.kwargs = ExpectedKwargs(ArgsText(input))

\* the scanner accepted an input with a positional argument after two keyword
\* arguments of the same key, the second with a further '=' in its value
C15_Witness ==
    /\ ScannerAccepted
    /\ IsSome(nom)
    /\ ScannerPath.args = <<<<"a">>>>
    /\ ScannerPath.kwargs = Some(<<<< <<"k">>, <<"v">> >>,
                                    << <<"k">>, <<"a", "=", "v">> >>>>)

\* a literal: one or more characters, none of them ':' ',' '='
WellFormedLiteral(l) ==
    l # <<>> /\ \A i \in 1..Len(l) : l[i] \notin {":", ",", "="}

WellFormedLiterals(sp) ==
    /\ \A i \in 1..Len(sp.args) : WellFormedLiteral(sp.args[i])
    /\ IsSome(sp.kwargs) =>
          \A i \in 1..Len(Unwrap(sp.kwargs)) :
              /\ WellFormedLiteral(Unwrap(sp.kwargs)[i][1])
              /\ WellFormedLiteral(Unwrap(sp.kwargs)[i][2])

\* C16: in every successfully parsed SecretPath each positional argument,
\* each keyword and each keyword value is non-empty and free of ':' ',' '='.
C16_LiteralsWellFormed ==
    /\ ScannerAccepted => WellFormedLiterals(ScannerPath)
    /\ CombinatorAccepted => WellFormedLiterals(CombinatorPath)

\* C17: Secret::has_lease() is true exactly when the Secret holds a lease of
\* non-zero duration, and false when the lease is absent or of duration zero,
\* whatever the time: an expired lease of non-zero duration still counts.
C17_HasLease ==
    obj.kind = "Secret" =>
        /\ (IsSome(obj.lease) /\ Unwrap(obj.lease).lease_duration > 0)
              => Secret_has_lease(obj)
        /\ (obj.lease = None \/ Unwrap(obj.lease).lease_duration = 0)
              => ~Secret_has_lease(obj)

\* a Secret whose lease of non-zero duration has expired and still counts
C17_Witness ==
    /\ obj.kind = "Secret"
    /\ IsSome(obj.lease)
    /\ Unwrap(obj.lease).lease_duration > 0
    /\ now > Unwrap(obj.lease).time + Unwrap(obj.lease).lease_duration
    /\ ~Secret_is_valid(obj)
    /\ Secret_has_lease(obj)

\* the cached Auth of role r has a non-empty token and no lease
NoLeaseAuth(r) ==
    /\ IsSome(auth[r])
    /\ Unwrap(auth[r]).client_token # ""
    /\ Unwrap(auth[r]).lease = None

\* C18: a login that succeeds on a response with renewable = false and a
\* non-empty client_token caches an Auth without lease; from then on, however
\* far the clock advances, that entry stays and every login(role) is a no-op
\* that makes no transport call.
C18_NoLeaseNeverExpires ==
    [][\A r \in Roles :
          /\ (/\ LoginStep(r)
              /\ Len(wire') = 1
              /\ wire'[1].res.sent /\ wire'[1].res.status_ok /\ wire'[1].res.json_ok
              /\ wire'[1].res.body.renewable = Some(JBool(FALSE))
              /\ wire'[1].res.body.client_token = Some(JStr("t"))) =>
                 auth'[r] = Some([client_token |-> "t", lease |-> None])
          /\ NoLeaseAuth(r) =>
                 /\ auth'[r] = auth[r]
                 /\ LoginStep(r) =>
                       /\ wire' = <<>>
                       /\ last'.ret = Ok(Unwrap(auth[r]))]_vars

\* at the end of the clock a login on a role whose Auth has no lease was a
\* no-op, right after the other role logged in at that same time
C18_Witness ==
    /\ now = MaxTime
    /\ last.op = "login"
    /\ wire = <<>>
    /\ NoLeaseAuth(last.role)
    /\ last.ret = Ok(Unwrap(auth[last.role]))
    /\ \E q \in Roles \ {last.role} :
          /\ IsSome(auth[q])
          /\ IsSome(Unwrap(auth[q]).lease)
          /\ Unwrap(Unwrap(auth[q]).lease).time = MaxTime

\* the slices the iterator has yielded so far
Slices == SelectSeq(yielded, IsSome)

\* three slices yielded: the first two hold no ':' and the three, joined by
\* ':', are the input
ThreeSlices ==
    Len(Slices) = 3 =>
        /\ Positions(Unwrap(Slices[1]), ":") = {}
        /\ Positions(Unwrap(Slices[2]), ":") = {}
        /\ Unwrap(Slices[1]) \o <<":">> \o Unwrap(Slices[2]) \o <<":">>
               \o Unwrap(Slices[3]) = input

\* C19: the iterator's pos only moves Backend -> Args -> Path, its remainder
\* only shrinks to one of its own suffixes, and whenever three slices have
\* been yielded the first two hold no ':' and s1 + ':' + s2 + ':' + s3 is the
\* input.
C19_ForwardScanner ==
    [][/\ it'.pos # it.pos =>
             <<it.pos, it'.pos>> \in {<<"Backend", "Args">>, <<"Args", "Path">>}
       /\ Len(it'.remainder) <= Len(it.remainder)
       /\ it'.remainder = SubSeq(it.remainder,
                                 Len(it.remainder) - Len(it'.remainder) + 1,
                                 Len(it.remainder))
       /\ ThreeSlices']_vars

\* three slices were yielded, the third with a ':' of its own, and the call
\* after them returned None
C19_Witness ==
    /\ Len(yielded) = 4
    /\ Len(Slices) = 3
    /\ yielded[4] = None
    /\ it.pos = "Path"
    /\ Positions(Unwrap(yielded[3]), ":") # {}

\* C20: when login(role) calls the transport and the call fails (no response,
\* a status other than OK, or a body that does not decode), login returns an
\* error and the whole auth cache, a stale entry of role included, is what it
\* was before the call.
C20_FailedLoginKeepsCache ==
    [][\A r \in Roles :
          (/\ LoginStep(r)
           /\ Len(wire') = 1
           /\ ~(wire'[1].res.sent /\ wire'[1].res.status_ok /\ wire'[1].res.json_ok)) =>
              /\ last'.ret.err # ""
              /\ last'.ret.val = None
              /\ auth' = auth]_vars

\* a login failed on a non-OK status while a stale Auth was cached for the
\* role, and the stale Auth is still there
C20_Witness ==
    /\ last.op = "login"
    /\ last.ret.err = "VaultError"
    /\ Len(wire) = 1
    /\ IsSome(auth[last.role])
    /\ IsSome(Unwrap(auth[last.role]).lease)
    /\ Auth_to_renew(Unwrap(auth[last.role]))

\* C21: at the instant login(role) returns Ok, whatever OK response the
\* transport gave (client_token present or missing, lease_duration any or
\* missing, renewable true or false), is_logged(role) is true.
C21_LoginEstablishesSession ==
    [][\A r \in Roles :
          (LoginStep(r) /\ last'.ret.err = "") => is_logged(r)']_vars

\* C22: at the instant a successful get_secret returns, when the response
\* reports a lease_duration of one second or more, the returned Secret has a
\* lease and is valid.
C22_FetchedSecretUsable ==
    [][\A r \in Roles :
          (/\ SecretStep(r)
           /\ last'.ret.err = ""
           /\ unwrap_or(as_u64(wire'[1].res.body.lease_duration), 0) >= 1) =>
              /\ Secret_has_lease(Unwrap(last'.ret.val))
              /\ Secret_is_valid(Unwrap(last'.ret.val))]_vars

\* the phase of a lease: 1 fresh (valid, not to renew), 2 renewable (valid,
\* to renew), 3 expired (not valid, to renew); 0 is not valid and not to renew
LeasePhase(l) ==
    IF Lease_is_valid(l)
    THEN (IF Lease_to_renew(l) THEN 2 ELSE 1)
    ELSE (IF Lease_to_renew(l) THEN 3 ELSE 0)

\* C23: while the clock does not go back, a lease of positive duration only
\* moves fresh -> renewable -> expired: once not valid it never is valid
\* again, once due for renewal it stays so, and it is never expired without
\* being due for renewal.
C23_LeaseLifecycle ==
    [][(/\ obj' = obj
        /\ IsSome(obj.lease)
        /\ Unwrap(obj.lease).lease_duration > 0) =>
           /\ LeasePhase(Unwrap(obj.lease)) # 0
           /\ LeasePhase(Unwrap(obj.lease))' # 0
           /\ LeasePhase(Unwrap(obj.lease))' >= LeasePhase(Unwrap(obj.lease))
           /\ ~Lease_is_valid(Unwrap(obj.lease)) => ~Lease_is_valid(Unwrap(obj.lease))'
           /\ Lease_to_renew(Unwrap(obj.lease)) => Lease_to_renew(Unwrap(obj.lease))'
           /\ Unwrap(obj.lease).renew_delay <= Unwrap(obj.lease).lease_duration]_vars

\* a Lease made at the start of the clock that was fresh, then renewable, and
\* has now just expired
C23_Witness ==
    /\ obj.kind = "Lease"
    /\ Unwrap(obj.lease).time = 0
    /\ Unwrap(obj.lease).lease_duration = MaxDur
    /\ Unwrap(obj.lease).renew_delay + 1 < MaxDur
    /\ now = MaxDur
    /\ LeasePhase(Unwrap(obj.lease)) = 3

\* C24: once next() has returned None every later call returns None, and the
\* iterator yields at most three slices.
C24_FusedIterator ==
    /\ \A i \in 1..Len(yielded) : \A j \in i..Len(yielded) :
           yielded[i] = None => yielded[j] = None
    /\ Len(Slices) <= 3

\* C25: whenever secret_path succeeds its remainder is empty, so the
\* combinator try_from never returns ExtraData.
C25_NoExtraData ==
    IsSome(nom) =>
        /\ Unwrap(nom).err # "ExtraData"
        /\ secret_path(input).res = "Ok" => secret_path(input).rest = <<>>

\* the combinator parser accepted an input with a second '#', which lies
\* beyond what path stops at and went into the anchor
C25_Witness ==
    /\ CombinatorAccepted
    /\ IsSome(CombinatorPath.anchor)
    /\ Positions(Unwrap(CombinatorPath.anchor), "#") # {}
    /\ secret_path(input).rest = <<>>

====
